---------------------------- MODULE Spec2Model ----------------------------
(***************************************************************************)
(* A model of the student-facing pages of the assessment front-end:        *)
(*   - pages/student/TakeAssessment.tsx : the assessment-taking flow       *)
(*     (loading, per-question timing, answer-change counting, confusion    *)
(*     flagging, navigation, countdown, submission);                       *)
(*   - pages/student/Dashboard.tsx : StudentDashboard (fetchData and the   *)
(*     attempt-status functions).                                          *)
(* React state is modelled by variables, one per useState cell; a handler  *)
(* is one action, and an async handler is split at each await.             *)
(***************************************************************************)
EXTENDS Integers, Sequences, FiniteSets, TLC

(***************************************************************************)
(* Bounds of the model.                                                    *)
(***************************************************************************)
NumQuestions == 2          \* questions of the assessment under test
MaxClock == 1              \* Date.now() ranges over 0..MaxClock
MaxCalls == 3              \* handleAnswerChange invocations in a session
MaxPending == 1            \* handleNext invocations awaiting submitResponse
MaxLimitMinutes == 1       \* time_limit_minutes ranges over 0..MaxLimitMinutes
MaxManualSubmits == 1      \* presses of the Submit Assessment button
MaxAttemptsSetting == 2    \* max_attempts ranges over -1..MaxAttemptsSetting
MaxListed == 2             \* attempts the backend lists for the student
MaxDate == 2               \* dates (due date, today) range over 0..MaxDate
MaxSections == 6           \* sections of a study content
MaxPrevious == 3           \* presses of the Previous button of StudyContent
MaxSelects == 3            \* calls of selectUserType
MaxMounts == 2             \* mounts of the UserTypeProvider after the first
NumViewQuestions == 2      \* questions of the assessment the teacher views
MaxWords == 2              \* words of a question text
MaxRegenerations == 1      \* presses of the Regenerate Question button
MaxSettingsRequests == 1   \* presses of Save Settings and Assign Assessment
MaxEdits == 1              \* changes the teacher makes in the settings form
NumTeacherAssessments == 2 \* assessments the teacher's dashboard lists
MaxDeletes == 1            \* presses of the Delete Assessment button

(***************************************************************************)
(* Program constants.                                                      *)
(***************************************************************************)
CONFUSION_THRESHOLD == 3   \* config/constants.ts
SecondsPerMinute == 60     \* TakeAssessment.tsx: time_limit_minutes * 60
NoLimit == -1              \* timeRemaining === null
NoDue == -1                \* assignment_settings.due_date undefined
EmptyDue == -2             \* due_date: '' in the settings form
UnlimitedAttempts == -1    \* the 'Unlimited' option of Maximum Attempts
maxAttempts == 3           \* handleRegenerateQuestion: const maxAttempts = 3

VARIABLES
  \* ---- TakeAssessment: React state
  assessment,            \* useState<Assessment | null>
  attempt,               \* useState<TestAttempt | null>
  currentQuestionIndex,  \* useState(0)
  answers,               \* useState<{[key: number]: UserAnswer}>({})
  loading,               \* useState(true)
  fetchPc,               \* position of fetchAssessmentAndStartAttempt
  questionStartTime,     \* useState(Date.now())
  showResults,           \* useState(false)
  submitting,            \* useState(false)
  timeRemaining,         \* useState<number | null>(null); NoLimit is null
  \* ---- TakeAssessment: environment and control
  clock,                 \* Date.now()
  mounted,               \* FALSE once navigate('/student') has left the page
  pendingNext,           \* per captured currentQuestionIndex, the handleNext
                         \* invocations suspended at await submitResponse
  procs,                 \* per position, the handleSubmitAssessment invocations
                         \* suspended there
  timerSubmitting,       \* `submitting` as captured by the interval's closure
  \* ---- TakeAssessment: history
  answersInitAt,         \* Date.now() when setAnswers(initialAnswers) ran
  calls,                 \* per question, handleAnswerChange calls made on it
  submissions,           \* handleSubmitAssessment invocations that passed the guard
  completeSent,          \* complete-attempt requests sent
  completeOk,            \* complete-attempt responses that were OK
  manualClicks,          \* presses of the Submit Assessment button
  autoInvoked,           \* the countdown invoked handleSubmitAssessment
  responsesSent,         \* history: submit-response requests sent by submissions
  responseFailed,        \* history: one of these was answered non-OK or rejected
  \* ---- StudentDashboard: the backend's data for one assessment
  settings,              \* assessment.assignment_settings
  backendAttempts,       \* the student's attempts, as the backend lists them
  today,                 \* new Date()
  \* ---- StudentDashboard: fetchData and React state
  dashPc,                \* position of fetchData
  attemptsData,          \* fetchData's attemptsData[assessment.id]
  attempts,              \* useState: attempts[assessment.id]
  performanceData,       \* useState: performanceData[assessment.id]
  dashLoading,           \* useState(true): loading
  dashError,             \* useState(null): error is set
  performanceFetch,      \* history: outcome of the performance fetch
  \* ---- StudyContent
  studySections,         \* studyContent.content.sections.length, once fetched
  studyPc,               \* position of fetchAssessmentAndContent
  studyLoading,          \* useState(true): loading
  studyError,            \* useState(''): error is set
  currentSection,        \* useState(0)
  studyCompleted,        \* useState(false)
  previousPresses,       \* history: presses of Previous
  \* ---- UserTypeProvider (contexts/AuthContext.tsx)
  state,                 \* useReducer(userTypeReducer, initialState)
  localStorage,          \* localStorage 'userType' ("null" when absent)
  pendingSelect,         \* select-user-type requests in flight, per user type
  lastDone,              \* history: the operation that completed last
  selects,               \* history: calls of selectUserType
  mounts,                \* history: mounts after the first
  \* ---- ViewContent (the teacher's view of one assessment)
  viewAssessment,        \* useState(null): assessment
  viewPc,                \* position of fetchAssessment
  viewLoading,           \* useState(true): loading
  viewError,             \* useState(''): error is set
  assignmentSettings,    \* useState: the settings form
  regenerateModal,       \* useState({show: false, questionId: null})
  regenerating,          \* useState(false)
  regenPc,               \* position of handleRegenerateQuestion
  regenAttempts,         \* handleRegenerateQuestion: let attempts
  regenClosure,          \* assessment and questionId the running call captured
  regenSent,             \* history: requests the running call has sent
  regenCalls,            \* history: calls of handleRegenerateQuestion
  regenResult,           \* history: how the last call ended
  \* ---- ViewContent: assignment settings
  storedSettings,        \* the assignment settings the backend holds
  settingsModal,         \* useState(false)
  settingsLoading,       \* useState(false)
  assignModal,           \* useState(false)
  assigning,             \* useState(false)
  savePc,                \* position of handleSaveSettings
  saveClosure,           \* assessment and form the running handleSaveSettings captured
  assignPc,              \* position of handleAssignAssessment
  inFlight,              \* body of the settings request in flight, per handler
  lastSent,              \* history: handler and body of the last settings request
  sentByCall,            \* history: requests the running call has sent, per handler
  settingsRequests,      \* history: settings requests sent
  edits,                 \* history: changes made in the form since it was loaded
  \* ---- TeacherDashboard (pages/teacher/Dashboard.tsx)
  teacherAssessments,    \* useState([]): ids of the assessments listed
  teacherPc,             \* position of fetchData
  teacherLoading,        \* useState(true): loading
  deleteModal,           \* useState({show: false, assessment: null})
  deleting,              \* useState(false)
  deletePc,              \* position of handleDeleteAssessment
  deleteClosure,         \* id of the assessment the running call captured
  deleteSent,            \* history: requests the running call has sent
  deleteCalls            \* history: calls of handleDeleteAssessment

takeVars == <<assessment, attempt, currentQuestionIndex, answers, loading, fetchPc,
              questionStartTime, showResults, submitting, timeRemaining,
              clock, mounted, pendingNext, procs, timerSubmitting,
              answersInitAt, calls, submissions, completeSent, completeOk,
              manualClicks, autoInvoked,
             responsesSent, responseFailed>>

dashVars == <<settings, backendAttempts, today, dashPc, attemptsData, attempts,
              performanceData, dashLoading, dashError, performanceFetch>>

studyVars == <<studySections, studyPc, studyLoading, studyError, currentSection,
               studyCompleted, previousPresses>>

authVars == <<state, localStorage, pendingSelect, lastDone, selects, mounts>>

viewVars == <<viewAssessment, viewPc, viewLoading, viewError, assignmentSettings,
              regenerateModal, regenerating, regenPc, regenAttempts, regenClosure,
              regenSent, regenCalls, regenResult>>

settingsVars == <<storedSettings, settingsModal, settingsLoading, assignModal, assigning,
                  savePc, saveClosure, assignPc, inFlight, lastSent, sentByCall,
                  settingsRequests, edits>>

teacherVars == <<teacherAssessments, teacherPc, teacherLoading, deleteModal, deleting,
                 deletePc, deleteClosure, deleteSent, deleteCalls>>

vars == <<takeVars, dashVars, studyVars, authVars, viewVars, settingsVars, teacherVars>>

\* What the handlers of one component leave alone: the other components.
outsideTake == <<dashVars, studyVars, authVars, viewVars, settingsVars, teacherVars>>

outsideDash == <<takeVars, studyVars, authVars, viewVars, settingsVars, teacherVars>>

outsideStudy == <<takeVars, dashVars, authVars, viewVars, settingsVars, teacherVars>>

outsideAuth == <<takeVars, dashVars, studyVars, viewVars, settingsVars, teacherVars>>

outsideView == <<takeVars, dashVars, studyVars, authVars, teacherVars>>

outsideTeacher == <<takeVars, dashVars, studyVars, authVars, viewVars, settingsVars>>

(***************************************************************************)
(* The assessment under test.                                              *)
(***************************************************************************)
QuestionIds == 1..NumQuestions

\* Question.type of the question with id q
QuestionType(q) ==
  CASE q % 3 = 1 -> "mcq_multiple"
    [] q % 3 = 2 -> "mcq_single"
    [] OTHER     -> "numeric"

\* Question.options keys of the question with id q
Options(q) == IF QuestionType(q) = "mcq_multiple" THEN {"A"} ELSE {"A", "B"}
NumericInputs == {"", "1"}     \* e.target.value of the numeric input

\* The order of the questions after the optional shuffle
QuestionOrders ==
  {s \in [1..NumQuestions -> QuestionIds] :
      \A i, j \in 1..NumQuestions : i # j => s[i] # s[j]}

Identity == [i \in 1..NumQuestions |-> i]

ShuffledQuestions(shuffle) == IF shuffle THEN QuestionOrders ELSE {Identity}

NullAssessment ==
  [present |-> FALSE, questions |-> <<>>,
   show_results_immediately |-> "absent", shuffle_questions |-> FALSE]
NullAttempt == [present |-> FALSE, time_limit_minutes |-> 0]

\* assignment_settings?.show_results_immediately: "absent" when the settings
\* are null
ShowSettings == {"true", "false", "absent"}

(***************************************************************************)
(* Pure parts of the handlers.                                             *)
(***************************************************************************)

\* initialAnswers: one record per question (the Date fields shownAt and
\* answeredAt, which no handler reads back, are left out)
InitialAnswers(questions) ==
  [q \in {questions[i] : i \in 1..Len(questions)} |->
     [questionId  |-> q,
      answer      |-> IF QuestionType(q) = "mcq_multiple" THEN <<>> ELSE "",
      timeSpent   |-> 0,
      changeCount |-> 0,
      isConfused  |-> FALSE]]

\* assessment?.questions[currentQuestionIndex]; 0 when undefined
CurrentQuestion ==
  IF assessment.present /\ currentQuestionIndex + 1 \in 1..Len(assessment.questions)
  THEN assessment.questions[currentQuestionIndex + 1]
  ELSE 0

\* JavaScript truthiness of UserAnswer.answer: '' is falsy, an array is truthy
Truthy(q, a) == IF QuestionType(q) = "mcq_multiple" THEN TRUE ELSE a # ""

\* The main page (question, inputs, navigation) is rendered
TakingPageShown ==
  mounted /\ ~loading /\ assessment.present /\ CurrentQuestion # 0 /\ ~showResults

SeqRemove(s, k) == SelectSeq(s, LAMBDA x : x # k)
SeqHas(s, k) == \E i \in 1..Len(s) : s[i] = k

\* The values the inputs of question q can pass to handleAnswerChange
InputValues(q, cur) ==
  CASE QuestionType(q) = "mcq_single" -> Options(q) \ {cur}
    [] QuestionType(q) = "mcq_multiple" ->
         {IF SeqHas(cur, k) THEN SeqRemove(cur, k) ELSE Append(cur, k) : k \in Options(q)}
    [] OTHER -> NumericInputs \ {cur}

AnswerChanged_Dirty(prev, q, value, timeSpent) ==
  [prev EXCEPT ![q] = [@ EXCEPT !.answer = value,
                                !.timeSpent = @ + timeSpent,
                                !.changeCount = IF @ = 0 THEN 1 ELSE @]]

\* The updater of handleAnswerChange
AnswerChanged(prev, q, value, timeSpent) ==
  [prev EXCEPT ![q] = [@ EXCEPT !.answer = value,
                                !.timeSpent = @ + timeSpent,
                                !.changeCount = @ + 1]]

ConfusedToggled_SetOnly(prev, q) ==
  [prev EXCEPT ![q] = [@ EXCEPT !.isConfused = TRUE]]

\* The updater of handleMarkConfused
ConfusedToggled(prev, q) ==
  [prev EXCEPT ![q] = [@ EXCEPT !.isConfused = ~@]]

Sum(f) ==
  LET RECURSIVE S(_)
      S(D) == IF D = {} THEN 0
              ELSE LET x == CHOOSE y \in D : TRUE IN f[x] + S(D \ {x})
  IN S(DOMAIN f)

(***************************************************************************)
(* Init: the state after the first render and the mount effects.           *)
(***************************************************************************)
InitTake ==
  /\ assessment = NullAssessment
  /\ attempt = NullAttempt
  /\ currentQuestionIndex = 0
  /\ answers = <<>>
  /\ loading = TRUE
  /\ fetchPc = "getAssessment"
  /\ clock = 0
  /\ questionStartTime = 0
  /\ showResults = FALSE
  /\ submitting = FALSE
  /\ timeRemaining = NoLimit
  /\ mounted = TRUE
  /\ pendingNext = [i \in 0..NumQuestions - 1 |-> 0]
  /\ procs = [p \in 1..NumQuestions + 1 |-> 0]
  /\ timerSubmitting = FALSE
  /\ answersInitAt = 0
  /\ calls = <<>>
  /\ submissions = 0
  /\ completeSent = 0
  /\ completeOk = 0
  /\ manualClicks = 0
  /\ autoInvoked = FALSE
  /\ responsesSent = 0
  /\ responseFailed = FALSE

\* assessment.assignment_settings undefined (max_attempts 0 stands for undefined)
NullSettings == [present |-> FALSE, max_attempts |-> 0, due_date |-> NoDue]

\* performanceData[assessment.id] undefined
NullPerformance ==
  [present |-> FALSE, total_attempts |-> 0, completed_attempts |-> 0,
   max_attempts |-> 0, remaining_attempts |-> 0, can_attempt |-> FALSE,
   due_date_passed |-> FALSE]

\* The dashboard is not on screen: the student is on the assessment page.
DashboardIdle ==
  /\ settings = NullSettings
  /\ backendAttempts = <<>>
  /\ today = 0
  /\ dashPc = "done"
  /\ attemptsData = <<>>
  /\ attempts = <<>>
  /\ performanceData = NullPerformance
  /\ dashLoading = FALSE
  /\ dashError = FALSE
  /\ performanceFetch = "none"

\* StudyContent is not on screen.
StudyIdle ==
  /\ studySections = 0
  /\ studyPc = "done"
  /\ studyLoading = FALSE
  /\ studyError = FALSE
  /\ currentSection = 0
  /\ studyCompleted = FALSE
  /\ previousPresses = 0

UserTypes == {"student", "teacher"}

\* const initialState = { userType: null, loading: false }
initialState == [userType |-> "null", loading |-> FALSE]

\* The provider with nothing selected, nothing stored and nothing in flight.
AuthIdle ==
  /\ state = initialState
  /\ localStorage = "null"
  /\ pendingSelect = [t \in UserTypes |-> 0]
  /\ lastDone = [op |-> "none", userType |-> "null"]
  /\ selects = 0
  /\ mounts = 0

\* data.assignment_settings undefined (0 stands for an undefined number)
NoSettings ==
  [present |-> FALSE, due_date |-> NoDue, time_limit_minutes |-> 0, max_attempts |-> 0,
   retake_allowed |-> FALSE, show_results_immediately |-> FALSE,
   shuffle_questions |-> FALSE]

\* ViewContent: assessment === null
NullViewAssessment == [present |-> FALSE, questions |-> <<>>, assignment_settings |-> NoSettings]

\* useState<AssignmentSettings>: the initial form
InitialForm ==
  [due_date |-> EmptyDue, time_limit_minutes |-> 0, max_attempts |-> 1,
   retake_allowed |-> FALSE, show_results_immediately |-> TRUE,
   shuffle_questions |-> FALSE]

NoRegenerateModal == [show |-> FALSE, questionId |-> 0]

\* ViewContent is not on screen.
ViewIdle ==
  /\ viewAssessment = NullViewAssessment
  /\ viewPc = "done"
  /\ viewLoading = FALSE
  /\ viewError = FALSE
  /\ assignmentSettings = InitialForm
  /\ regenerateModal = NoRegenerateModal
  /\ regenerating = FALSE
  /\ regenPc = "idle"
  /\ regenAttempts = 0
  /\ regenClosure = [assessment |-> NullViewAssessment, questionId |-> 0]
  /\ regenSent = 0
  /\ regenCalls = 0
  /\ regenResult = "none"

NoDeleteModal == [show |-> FALSE, assessment |-> 0]

\* TeacherDashboard is not on screen.
TeacherIdle ==
  /\ teacherAssessments = {}
  /\ teacherPc = "done"
  /\ teacherLoading = FALSE
  /\ deleteModal = NoDeleteModal
  /\ deleting = FALSE
  /\ deletePc = "idle"
  /\ deleteClosure = 0
  /\ deleteSent = 0
  /\ deleteCalls = 0

Handlers == {"handleSaveSettings", "handleAssignAssessment"}

\* No settings request in flight, none sent, the form untouched.
SettingsIdle ==
  /\ settingsModal = FALSE
  /\ settingsLoading = FALSE
  /\ assignModal = FALSE
  /\ assigning = FALSE
  /\ savePc = "idle"
  /\ saveClosure = [assessment |-> NullViewAssessment, assignmentSettings |-> InitialForm]
  /\ assignPc = "idle"
  /\ inFlight = [h \in Handlers |-> InitialForm]
  /\ lastSent = [handler |-> "none", body |-> InitialForm]
  /\ sentByCall = [h \in Handlers |-> 0]
  /\ settingsRequests = 0
  /\ edits = 0

Init ==
  /\ InitTake /\ DashboardIdle /\ StudyIdle /\ AuthIdle /\ ViewIdle
  /\ SettingsIdle /\ storedSettings = NoSettings
  /\ TeacherIdle


(***************************************************************************)
(* Environment: time passes.                                               *)
(***************************************************************************)
ClockAdvance ==
  /\ UNCHANGED outsideTake
  /\ UNCHANGED <<responsesSent, responseFailed>>
  /\ mounted
  /\ clock < MaxClock
  /\ clock' = clock + 1
  /\ UNCHANGED <<assessment, attempt, currentQuestionIndex, answers, loading, fetchPc,
                 questionStartTime, showResults, submitting, timeRemaining,
                 mounted, pendingNext, procs, timerSubmitting,
                 answersInitAt, calls, submissions, completeSent, completeOk,
                 manualClicks, autoInvoked>>

Outcomes == {"ok", "non_ok", "throw"}   \* of a fetch: response.ok, !response.ok, rejected

(***************************************************************************)
(* fetchAssessmentAndStartAttempt, first await: the assessment arrives.    *)
(* OK: setAssessment(data) and the start-attempt request is sent.          *)
(* Otherwise: navigate('/student'); finally setLoading(false).             *)
(***************************************************************************)
getAssessmentResponse(shows, shuffles) ==
  /\ UNCHANGED outsideTake
  /\ UNCHANGED <<responsesSent, responseFailed>>
  /\ fetchPc = "getAssessment"
  /\ mounted
  /\ \E outcome \in Outcomes, show \in shows, shuffle \in shuffles :
       IF outcome = "ok"
       THEN /\ assessment' = [present |-> TRUE,
                              questions |-> Identity,
                              show_results_immediately |-> show,
                              shuffle_questions |-> shuffle]
            /\ fetchPc' = "startAttempt"
            /\ UNCHANGED <<loading, mounted>>
       ELSE /\ fetchPc' = "done"
            /\ loading' = FALSE
            /\ mounted' = FALSE
            /\ UNCHANGED assessment
  /\ UNCHANGED <<attempt, currentQuestionIndex, answers,
                 questionStartTime, showResults, submitting, timeRemaining,
                 clock, pendingNext, procs, timerSubmitting,
                 answersInitAt, calls, submissions, completeSent, completeOk,
                 manualClicks, autoInvoked>>

\* setTimeRemaining(attemptData.time_limit_minutes * 60)
CountdownStart(minutes) == minutes * SecondsPerMinute

(***************************************************************************)
(* fetchAssessmentAndStartAttempt, second await: the attempt arrives.      *)
(* OK: setAttempt, setTimeRemaining when a limit is given, the optional    *)
(* shuffle, setAnswers(initialAnswers), setAssessment({...data,questions}).*)
(* questionStartTime is not touched.  The countdown effect runs with the   *)
(* new timeRemaining and captures the state of this render.                *)
(***************************************************************************)
startAttemptResponse(limits) ==
  /\ UNCHANGED outsideTake
  /\ UNCHANGED <<responsesSent, responseFailed>>
  /\ fetchPc = "startAttempt"
  /\ mounted
  /\ fetchPc' = "done"
  /\ loading' = FALSE
  /\ \E outcome \in Outcomes, minutes \in limits,
        questions \in ShuffledQuestions(assessment.shuffle_questions) :
       IF outcome = "ok"
       THEN /\ attempt' = [present |-> TRUE, time_limit_minutes |-> minutes]
            /\ timeRemaining' = IF minutes # 0 THEN CountdownStart(minutes) ELSE timeRemaining
            /\ answers' = InitialAnswers(questions)
            /\ assessment' = [assessment EXCEPT !.questions = questions]
            /\ timerSubmitting' = submitting
            /\ answersInitAt' = clock
            /\ calls' = [q \in QuestionIds |-> 0]
            /\ UNCHANGED mounted
       ELSE /\ mounted' = FALSE
            /\ UNCHANGED <<attempt, timeRemaining, answers, assessment,
                           timerSubmitting, answersInitAt, calls>>
  /\ UNCHANGED <<currentQuestionIndex, questionStartTime, showResults, submitting,
                 clock, pendingNext, procs, submissions, completeSent, completeOk,
                 manualClicks, autoInvoked>>

(***************************************************************************)
(* handleAnswerChange(value)                                               *)
(***************************************************************************)
handleAnswerChange ==
  /\ UNCHANGED outsideTake
  /\ UNCHANGED <<responsesSent, responseFailed>>
  /\ TakingPageShown
  /\ Sum(calls) < MaxCalls
  /\ LET q == CurrentQuestion
         currentTime == clock
         timeSpent == currentTime - questionStartTime
     IN /\ \E value \in InputValues(q, answers[q].answer) :
              answers' = AnswerChanged(answers, q, value, timeSpent)
        /\ questionStartTime' = currentTime
        /\ calls' = [calls EXCEPT ![q] = @ + 1]
  /\ UNCHANGED <<assessment, attempt, currentQuestionIndex, loading, fetchPc,
                 showResults, submitting, timeRemaining,
                 clock, mounted, pendingNext, procs, timerSubmitting,
                 answersInitAt, submissions, completeSent, completeOk,
                 manualClicks, autoInvoked>>

(***************************************************************************)
(* handleMarkConfused                                                      *)
(***************************************************************************)
handleMarkConfused ==
  /\ UNCHANGED outsideTake
  /\ UNCHANGED <<responsesSent, responseFailed>>
  /\ TakingPageShown
  /\ answers' = ConfusedToggled(answers, CurrentQuestion)
  /\ UNCHANGED <<assessment, attempt, currentQuestionIndex, loading, fetchPc,
                 questionStartTime, showResults, submitting, timeRemaining,
                 clock, mounted, pendingNext, procs, timerSubmitting,
                 answersInitAt, calls, submissions, completeSent, completeOk,
                 manualClicks, autoInvoked>>

\* The Next button replaces Submit Assessment except on the last question
NextButtonShown ==
  TakingPageShown /\ currentQuestionIndex # Len(assessment.questions) - 1

\* handleNext after submitResponse: with index the currentQuestionIndex of
\* the closure.  Its else branch (handleSubmitAssessment) needs the closure's
\* index to be the last one, where the page renders no Next button.
AfterSubmitResponse(index) ==
  IF index < Len(assessment.questions) - 1 /\ mounted
  THEN /\ currentQuestionIndex' = currentQuestionIndex + 1
       /\ questionStartTime' = clock      \* effect on [currentQuestionIndex]
  ELSE UNCHANGED <<currentQuestionIndex, questionStartTime>>

(***************************************************************************)
(* handleNext: submits the current answer if it is truthy (and is then     *)
(* suspended until the response), then moves to the next question.         *)
(***************************************************************************)
handleNext ==
  /\ UNCHANGED outsideTake
  /\ UNCHANGED <<responsesSent, responseFailed>>
  /\ NextButtonShown
  /\ IF Truthy(CurrentQuestion, answers[CurrentQuestion].answer)
     THEN /\ Sum(pendingNext) < MaxPending
          /\ pendingNext' = [pendingNext EXCEPT ![currentQuestionIndex] = @ + 1]
          /\ UNCHANGED <<currentQuestionIndex, questionStartTime>>
     ELSE /\ AfterSubmitResponse(currentQuestionIndex)
          /\ UNCHANGED pendingNext
  /\ UNCHANGED <<assessment, attempt, answers, loading, fetchPc,
                 showResults, submitting, timeRemaining,
                 clock, mounted, procs, timerSubmitting,
                 answersInitAt, calls, submissions, completeSent, completeOk,
                 manualClicks, autoInvoked>>

\* The submit-response request of a suspended handleNext is answered (OK,
\* non-OK or rejected: submitResponse only logs the difference)
nextResponse ==
  /\ UNCHANGED outsideTake
  /\ UNCHANGED <<responsesSent, responseFailed>>
  /\ \E index \in DOMAIN pendingNext :
       /\ pendingNext[index] > 0
       /\ AfterSubmitResponse(index)
       /\ pendingNext' = [pendingNext EXCEPT ![index] = @ - 1]
  /\ UNCHANGED <<assessment, attempt, answers, loading, fetchPc,
                 showResults, submitting, timeRemaining,
                 clock, mounted, procs, timerSubmitting,
                 answersInitAt, calls, submissions, completeSent, completeOk,
                 manualClicks, autoInvoked>>

(***************************************************************************)
(* handlePrevious                                                          *)
(***************************************************************************)
handlePrevious ==
  /\ UNCHANGED outsideTake
  /\ UNCHANGED <<responsesSent, responseFailed>>
  /\ TakingPageShown
  /\ currentQuestionIndex > 0
  /\ currentQuestionIndex' = currentQuestionIndex - 1
  /\ questionStartTime' = clock           \* effect on [currentQuestionIndex]
  /\ UNCHANGED <<assessment, attempt, answers, loading, fetchPc,
                 showResults, submitting, timeRemaining,
                 clock, mounted, pendingNext, procs, timerSubmitting,
                 answersInitAt, calls, submissions, completeSent, completeOk,
                 manualClicks, autoInvoked>>

(***************************************************************************)
(* An assessment session without a time limit: loading, answering,         *)
(* flagging and navigating, with time passing.                             *)
(***************************************************************************)
Next ==
  \/ ClockAdvance
  \/ getAssessmentResponse({"absent"}, BOOLEAN)
  \/ startAttemptResponse({0})
  \/ handleAnswerChange
  \/ handleMarkConfused
  \/ handleNext
  \/ nextResponse
  \/ handlePrevious

Spec == Init /\ [][Next]_vars


(***************************************************************************)
(* Submission.  A handleSubmitAssessment invocation in progress is at a    *)
(* position p: at p <= AnswerCount the submit-response request of the p-th *)
(* key of `answers` (for ... in: ascending ids) is in flight, at           *)
(* p = AnswerCount + 1 the complete-attempt request is.  procs[p] counts   *)
(* the invocations at p.                                                   *)
(***************************************************************************)

\* The keys of `answers` a submission walks through
AnswerCount == Cardinality(DOMAIN answers)

\* if (!assessment || !attempt || submitting) return;  with the values of
\* the closure that invokes it
SubmitGuard(closureSubmitting) ==
  assessment.present /\ attempt.present /\ ~closureSubmitting

\* An invocation moves to position p: its request there is sent
Sends(p) == IF p = AnswerCount + 1 THEN 1 ELSE 0

\* Position p <= AnswerCount is the submitResponse call of the p-th answer
SendsResponse(p) == IF p \in 1..AnswerCount THEN 1 ELSE 0

\* handleSubmitAssessment up to its first await
SubmitStart(closureSubmitting) ==
  IF SubmitGuard(closureSubmitting)
  THEN /\ submitting' = TRUE
       /\ procs' = [procs EXCEPT ![1] = @ + 1]
       /\ submissions' = submissions + 1
       /\ completeSent' = completeSent + Sends(1)
       /\ responsesSent' = responsesSent + SendsResponse(1)
  ELSE UNCHANGED <<submitting, procs, submissions, completeSent, responsesSent>>

TickExpires_AtZero(prev) == prev = NoLimit \/ prev <= 0

\* The updater of the countdown: prev === null || prev <= 1
TickExpires(prev) == prev = NoLimit \/ prev <= 1

(***************************************************************************)
(* One tick of the countdown's interval.  The interval exists while        *)
(* timeRemaining is a positive number; its callback is the closure of the  *)
(* render in which timeRemaining last changed.                             *)
(***************************************************************************)
timerTick ==
  /\ UNCHANGED outsideTake
  /\ UNCHANGED responseFailed
  /\ mounted
  /\ timeRemaining # NoLimit /\ timeRemaining > 0
  /\ IF TickExpires(timeRemaining)
     THEN /\ SubmitStart(timerSubmitting)
          /\ autoInvoked' = TRUE
          /\ timeRemaining' = 0
     ELSE /\ timeRemaining' = timeRemaining - 1
          /\ UNCHANGED <<submitting, procs, submissions, completeSent, autoInvoked,
                         responsesSent>>
  /\ timerSubmitting' = submitting'
  /\ UNCHANGED <<assessment, attempt, currentQuestionIndex, answers, loading, fetchPc,
                 questionStartTime, showResults,
                 clock, mounted, pendingNext,
                 answersInitAt, calls, completeOk, manualClicks>>

\* The Submit Assessment button: shown on the last question, disabled while
\* submitting
SubmitButtonEnabled ==
  /\ TakingPageShown
  /\ currentQuestionIndex = Len(assessment.questions) - 1
  /\ ~submitting

clickSubmit ==
  /\ UNCHANGED outsideTake
  /\ UNCHANGED responseFailed
  /\ SubmitButtonEnabled
  /\ manualClicks < MaxManualSubmits
  /\ manualClicks' = manualClicks + 1
  /\ SubmitStart(submitting)
  /\ UNCHANGED <<assessment, attempt, currentQuestionIndex, answers, loading, fetchPc,
                 questionStartTime, showResults, timeRemaining,
                 clock, mounted, pendingNext, timerSubmitting,
                 answersInitAt, calls, completeOk, autoInvoked>>

\* A loop that sends the same request again after a failure.
AfterResponse_Retry(p, outcome) == IF outcome = "ok" THEN p + 1 ELSE p

\* A loop that a failed request ends (0: the submission is over).
AfterResponse_Abort(p, outcome) == IF outcome = "ok" THEN p + 1 ELSE 0

\* for (const questionId in answers) { await submitResponse(...) }: whatever
\* the outcome, submitResponse returns and the loop goes on to position p + 1
AfterResponse(p, outcome) == p + 1

(***************************************************************************)
(* A submit-response request of a submission is answered: submitResponse   *)
(* logs a failure and returns, and the loop sends the next request, or     *)
(* the complete-attempt request after the last answer.                     *)
(***************************************************************************)
responseArrives ==
  /\ UNCHANGED outsideTake
  /\ \E p \in 1..AnswerCount, outcome \in Outcomes :
       LET next == AfterResponse(p, outcome)
       IN /\ procs[p] > 0
          /\ procs' = IF next = 0 THEN [procs EXCEPT ![p] = @ - 1]
                                  ELSE [procs EXCEPT ![p] = @ - 1, ![next] = @ + 1]
          /\ completeSent' = completeSent + Sends(next)
          /\ responsesSent' = responsesSent + SendsResponse(next)
          /\ responseFailed' = (responseFailed \/ outcome # "ok")
  /\ UNCHANGED <<assessment, attempt, currentQuestionIndex, answers, loading, fetchPc,
                 questionStartTime, showResults, submitting, timeRemaining,
                 clock, mounted, pendingNext, timerSubmitting,
                 answersInitAt, calls, submissions, completeOk,
                 manualClicks, autoInvoked>>

ShowResultsImmediately_UnlessFalse == assessment.show_results_immediately # "false"

\* assessment.assignment_settings?.show_results_immediately
ShowResultsImmediately == assessment.show_results_immediately = "true"

(***************************************************************************)
(* The complete-attempt request of a submission is answered.               *)
(* OK: setShowResults(true) if the results may be shown, else              *)
(* navigate('/student').  Otherwise an alert.  finally setSubmitting(false)*)
(***************************************************************************)
completeArrives ==
  /\ UNCHANGED outsideTake
  /\ UNCHANGED <<responsesSent, responseFailed>>
  /\ \E outcome \in Outcomes :
       /\ procs[AnswerCount + 1] > 0
       /\ procs' = [procs EXCEPT ![AnswerCount + 1] = @ - 1]
       /\ IF outcome = "ok"
          THEN /\ completeOk' = completeOk + 1
               /\ IF ShowResultsImmediately
                  THEN /\ showResults' = (mounted \/ showResults)
                       /\ UNCHANGED mounted
                  ELSE /\ mounted' = FALSE
                       /\ UNCHANGED showResults
          ELSE UNCHANGED <<completeOk, showResults, mounted>>
  /\ submitting' = FALSE
  /\ UNCHANGED <<assessment, attempt, currentQuestionIndex, answers, loading, fetchPc,
                 questionStartTime, timeRemaining,
                 clock, pendingNext, timerSubmitting,
                 answersInitAt, calls, submissions, completeSent,
                 manualClicks, autoInvoked>>

\* Exit Assessment / Return to Dashboard: navigate('/student')
exitAssessment ==
  /\ UNCHANGED outsideTake
  /\ UNCHANGED <<responsesSent, responseFailed>>
  /\ mounted /\ ~loading
  /\ mounted' = FALSE
  /\ UNCHANGED <<assessment, attempt, currentQuestionIndex, answers, loading, fetchPc,
                 questionStartTime, showResults, submitting, timeRemaining,
                 clock, pendingNext, procs, timerSubmitting,
                 answersInitAt, calls, submissions, completeSent, completeOk,
                 manualClicks, autoInvoked>>

(***************************************************************************)
(* An assessment session with its countdown and its submission.  The       *)
(* interval fires as long as it exists and every request is answered.      *)
(***************************************************************************)
NextSubmit ==
  \/ getAssessmentResponse(ShowSettings, {FALSE})
  \/ startAttemptResponse(0..MaxLimitMinutes)
  \/ timerTick
  \/ handleNext
  \/ nextResponse
  \/ handlePrevious
  \/ clickSubmit
  \/ responseArrives
  \/ completeArrives
  \/ exitAssessment

FairSpec ==
  /\ Init
  /\ [][NextSubmit]_vars
  /\ WF_vars(timerTick)
  /\ WF_vars(responseArrives)
  /\ WF_vars(completeArrives)

(***************************************************************************)
(* An assessment without a time limit, submitted with the button; every    *)
(* request is answered.                                                    *)
(***************************************************************************)
NextManualSubmit ==
  \/ getAssessmentResponse(ShowSettings, {FALSE})
  \/ startAttemptResponse({0})
  \/ handleNext
  \/ nextResponse
  \/ handlePrevious
  \/ clickSubmit
  \/ responseArrives
  \/ completeArrives
  \/ exitAssessment

SubmitSpec ==
  /\ Init
  /\ [][NextManualSubmit]_vars
  /\ WF_vars(responseArrives)
  /\ WF_vars(completeArrives)

(***************************************************************************)
(* StudentDashboard (pages/student/Dashboard.tsx), for one listed          *)
(* assessment.  An attempt of the backend's list is "in_progress" (no      *)
(* completed_at), "completed" (completed_at and total_score) or            *)
(* "unscored" (completed_at, total_score undefined).                       *)
(***************************************************************************)
AttemptKinds == {"in_progress", "completed", "unscored"}

AttemptLists == UNION {[1..n -> AttemptKinds] : n \in 0..MaxListed}

MaxAttemptsOptions == {UnlimitedAttempts, 0} \cup 1..MaxAttemptsSetting

AssignmentSettings ==
  {NullSettings} \cup
  [present : {TRUE}, max_attempts : MaxAttemptsOptions, due_date : {NoDue} \cup 0..MaxDate]

Max(a, b) == IF a >= b THEN a ELSE b

\* attempts.filter(a => a.completed_at).length
CompletedAt(list) == Cardinality({i \in DOMAIN list : list[i] # "in_progress"})

\* attempts.filter(a => a.completed_at && a.total_score !== undefined).length
CompletedScored(list) == Cardinality({i \in DOMAIN list : list[i] = "completed"})

\* due_date && new Date(due_date) < new Date()
DueDateBeforeNow == settings.due_date # NoDue /\ settings.due_date < today

\* assessment.assignment_settings?.max_attempts || 1
MaxAttemptsOrOne == IF settings.max_attempts = 0 THEN 1 ELSE settings.max_attempts

(***************************************************************************)
(* The environment: what the external backend answers to the performance   *)
(* request.  Its attempt_control agrees with the settings and the attempts *)
(* it lists; remaining_attempts is -1 when attempts are not limited.       *)
(***************************************************************************)
BackendPerformance ==
  LET limited == settings.present /\ settings.max_attempts > 0
      total   == Len(backendAttempts)
      passed  == settings.present /\ DueDateBeforeNow
  IN [present            |-> TRUE,
      total_attempts     |-> total,
      completed_attempts |-> CompletedAt(backendAttempts),
      max_attempts       |-> settings.max_attempts,
      remaining_attempts |-> IF limited THEN Max(0, settings.max_attempts - total)
                                        ELSE UnlimitedAttempts,
      can_attempt        |-> ~passed /\ (limited => total < settings.max_attempts),
      due_date_passed    |-> passed]

\* A fallback record whose can_attempt counts the completed attempts only.
FallbackPerformance_CompletedOnly(list) ==
  [present            |-> TRUE,
   total_attempts     |-> Len(list),
   completed_attempts |-> CompletedScored(list),
   max_attempts       |-> MaxAttemptsOrOne,
   remaining_attempts |-> Max(0, MaxAttemptsOrOne - Len(list)),
   can_attempt        |-> CompletedScored(list) < MaxAttemptsOrOne,
   due_date_passed    |-> FALSE]

(***************************************************************************)
(* fetchData, performance response not OK: the record the dashboard builds *)
(* itself from a non-empty attempts list.                                  *)
(***************************************************************************)
FallbackPerformance(list) ==
  [present            |-> TRUE,
   total_attempts     |-> Len(list),
   completed_attempts |-> CompletedScored(list),
   max_attempts       |-> MaxAttemptsOrOne,
   remaining_attempts |-> Max(0, MaxAttemptsOrOne - Len(list)),
   can_attempt        |-> Len(list) < MaxAttemptsOrOne,
   due_date_passed    |-> FALSE]

(***************************************************************************)
(* Init of the dashboard: mounted, loading, the assessments request sent.  *)
(* The backend's data about the assessment and the date are the inputs.    *)
(***************************************************************************)
InitDashboard ==
  /\ InitTake
  /\ StudyIdle
  /\ AuthIdle
  /\ ViewIdle
  /\ SettingsIdle /\ storedSettings = NoSettings
  /\ TeacherIdle
  /\ settings \in AssignmentSettings
  /\ backendAttempts \in AttemptLists
  /\ today \in 0..MaxDate
  /\ dashPc = "assessments"
  /\ attemptsData = <<>>
  /\ attempts = <<>>
  /\ performanceData = NullPerformance
  /\ dashLoading = TRUE
  /\ dashError = FALSE
  /\ performanceFetch = "none"

(***************************************************************************)
(* fetchData, first await: the list of assessments arrives.  OK: the       *)
(* attempts request of the assessment is sent.  Otherwise setError; finally*)
(* setLoading(false).                                                      *)
(***************************************************************************)
assessmentsResponse ==
  /\ dashPc = "assessments"
  /\ \E outcome \in Outcomes :
       IF outcome = "ok"
       THEN /\ dashPc' = "attempts"
            /\ UNCHANGED <<dashLoading, dashError>>
       ELSE /\ dashPc' = "done"
            /\ dashError' = TRUE
            /\ dashLoading' = FALSE
  /\ UNCHANGED <<settings, backendAttempts, today, attemptsData, attempts,
                 performanceData, performanceFetch>>
  /\ UNCHANGED outsideDash

(***************************************************************************)
(* fetchData, the attempts response.  OK: attemptsData[id] is the list;    *)
(* not OK: []; both go on to the performance request.  Rejected: the inner *)
(* catch sets attemptsData[id] = [], the loop ends and the state is set.   *)
(***************************************************************************)
attemptsResponse ==
  /\ dashPc = "attempts"
  /\ \E outcome \in Outcomes :
       IF outcome = "throw"
       THEN /\ attemptsData' = <<>>
            /\ attempts' = <<>>
            /\ performanceData' = NullPerformance
            /\ dashLoading' = FALSE
            /\ dashPc' = "done"
       ELSE /\ attemptsData' = IF outcome = "ok" THEN backendAttempts ELSE <<>>
            /\ dashPc' = "performance"
            /\ UNCHANGED <<attempts, performanceData, dashLoading>>
  /\ UNCHANGED <<settings, backendAttempts, today, dashError, performanceFetch>>
  /\ UNCHANGED outsideDash

(***************************************************************************)
(* fetchData, the performance response.  OK: the backend's record.  Not    *)
(* OK: the fallback record when the attempts list is not empty.  Rejected: *)
(* the inner catch sets attemptsData[id] = [].  Then setAttempts,          *)
(* setPerformanceData and, finally, setLoading(false).                     *)
(***************************************************************************)
performanceResponse ==
  /\ dashPc = "performance"
  /\ \E outcome \in Outcomes :
       /\ performanceFetch' = outcome
       /\ attemptsData' = IF outcome = "throw" THEN <<>> ELSE attemptsData
       /\ performanceData' =
            CASE outcome = "ok" -> BackendPerformance
              [] outcome = "non_ok" ->
                   IF Len(attemptsData) > 0 THEN FallbackPerformance(attemptsData)
                                            ELSE NullPerformance
              [] OTHER -> NullPerformance
  /\ attempts' = attemptsData'
  /\ dashLoading' = FALSE
  /\ dashPc' = "done"
  /\ UNCHANGED <<settings, backendAttempts, today, dashError>>
  /\ UNCHANGED outsideDash

\* The list of assessment cards is rendered.
DashboardShown == ~dashLoading /\ ~dashError

(***************************************************************************)
(* canTakeAssessment: the performance record decides when there is one;    *)
(* otherwise the legacy logic on the attempts list.                        *)
(***************************************************************************)
canTakeAssessment ==
  IF performanceData.present THEN performanceData.can_attempt
  ELSE LET totalAttempts == Len(attempts)
       IN IF ~settings.present THEN TRUE
          ELSE IF DueDateBeforeNow THEN FALSE
          ELSE IF settings.max_attempts > 0 /\ totalAttempts >= settings.max_attempts
               THEN FALSE
          ELSE TRUE

getAssessmentStatus ==
  IF performanceData.present
  THEN IF performanceData.due_date_passed THEN "expired"
       ELSE IF ~performanceData.can_attempt /\ performanceData.completed_attempts > 0
            THEN "attempts-exhausted"
       ELSE IF performanceData.completed_attempts > 0 /\ performanceData.can_attempt
            THEN "can-retake"
       ELSE IF performanceData.completed_attempts > 0 THEN "completed" ELSE "available"
  ELSE IF CompletedAt(attempts) > 0 THEN "completed" ELSE "available"

\* What getRemainingAttempts returns: the text 'Unlimited', or a number n.
Unlimited == [text |-> "Unlimited", n |-> 0]

Remaining(k) == [text |-> "", n |-> k]

getRemainingAttempts ==
  IF performanceData.present
  THEN IF performanceData.remaining_attempts = -1 THEN Unlimited
       ELSE Remaining(performanceData.remaining_attempts)
  ELSE IF ~settings.present \/ settings.max_attempts = 0 THEN Unlimited
       ELSE Remaining(Max(0, settings.max_attempts - Len(attempts)))

\* The Start Assessment button: disabled={!canTake}
StartButtonDisabled == ~canTakeAssessment

\* "Attempts: n/max": the performance record's total, else the list's length
TotalAttemptsShown ==
  IF performanceData.present THEN performanceData.total_attempts ELSE Len(attempts)

(***************************************************************************)
(* The older copy of the dashboard kept in AppSimple.tsx, on the same      *)
(* attempts list: it has no performance record.                            *)
(***************************************************************************)
canTakeAssessmentOld ==
  LET totalAttempts == Len(attempts)
  IN IF ~settings.present THEN TRUE
     ELSE IF DueDateBeforeNow THEN FALSE
     ELSE IF settings.max_attempts > 0 /\ totalAttempts >= settings.max_attempts
          THEN FALSE
     ELSE TRUE

getAssessmentStatusOld ==
  LET completedAttempts == CompletedAt(attempts)
      totalAttempts     == Len(attempts)
  IN IF ~settings.present
     THEN IF completedAttempts > 0 THEN "completed" ELSE "available"
     ELSE IF DueDateBeforeNow THEN "expired"
     ELSE IF settings.max_attempts > 0 /\ totalAttempts >= settings.max_attempts
          THEN "attempts-exhausted"
     ELSE IF completedAttempts > 0 /\ totalAttempts < settings.max_attempts
          THEN "can-retake"
     ELSE IF completedAttempts > 0 THEN "completed" ELSE "available"

(***************************************************************************)
(* The dashboard loading its data.                                         *)
(***************************************************************************)
NextDashboard ==
  \/ assessmentsResponse
  \/ attemptsResponse
  \/ performanceResponse

DashSpec == InitDashboard /\ [][NextDashboard]_vars

(***************************************************************************)
(* StudyContent (pages/student/Dashboard.tsx).  Init: mounted with an      *)
(* assessmentId, loading, the assessment request sent.                     *)
(***************************************************************************)
InitStudy ==
  /\ InitTake
  /\ DashboardIdle
  /\ AuthIdle
  /\ ViewIdle
  /\ SettingsIdle /\ storedSettings = NoSettings
  /\ TeacherIdle
  /\ studySections = 0
  /\ studyPc = "getAssessment"
  /\ studyLoading = TRUE
  /\ studyError = FALSE
  /\ currentSection = 0
  /\ studyCompleted = FALSE
  /\ previousPresses = 0

(***************************************************************************)
(* fetchAssessmentAndContent, first await: the assessment arrives.  OK:    *)
(* setAssessment and the study-content request is sent.  Otherwise the     *)
(* catch sets the error; finally setLoading(false).                        *)
(***************************************************************************)
studyAssessmentResponse ==
  /\ studyPc = "getAssessment"
  /\ \E outcome \in Outcomes :
       IF outcome = "ok"
       THEN /\ studyPc' = "getStudyContent"
            /\ UNCHANGED <<studyLoading, studyError>>
       ELSE /\ studyPc' = "done"
            /\ studyError' = TRUE
            /\ studyLoading' = FALSE
  /\ UNCHANGED <<studySections, currentSection, studyCompleted, previousPresses>>
  /\ UNCHANGED outsideStudy

(***************************************************************************)
(* fetchAssessmentAndContent, second await: the study content arrives,     *)
(* with any number of sections.                                            *)
(***************************************************************************)
studyContentResponse ==
  /\ studyPc = "getStudyContent"
  /\ \E outcome \in Outcomes, n \in 0..MaxSections :
       IF outcome = "ok"
       THEN /\ studySections' = n
            /\ UNCHANGED studyError
       ELSE /\ studyError' = TRUE
            /\ UNCHANGED studySections
  /\ studyPc' = "done"
  /\ studyLoading' = FALSE
  /\ UNCHANGED <<currentSection, studyCompleted, previousPresses>>
  /\ UNCHANGED outsideStudy

\* The study pages are rendered: not loading, no error, content and assessment set.
StudyShown == studyPc = "done" /\ ~studyLoading /\ ~studyError /\ ~studyCompleted

\* const totalSections = studyContent.content.sections.length + 2
totalSections == studySections + 2

\* const isLastSection = currentSection === totalSections - 1
isLastSection == currentSection = totalSections - 1

\* The page currentContent shows.
currentContent ==
  IF currentSection = 0 THEN "Introduction"
  ELSE IF currentSection <= studySections THEN "Section"
  ELSE "Summary"

\* The Complete Study button replaces the Next button on the last page.
CompleteStudyOffered == StudyShown /\ isLastSection

NextOffered == StudyShown /\ ~isLastSection

\* studyContent && currentSection < studyContent.content.sections.length
CanAdvance == currentSection < studySections

(***************************************************************************)
(* The Next button is pressed: handleNextSection.  A press the guard       *)
(* rejects changes nothing.                                                *)
(***************************************************************************)
handleNextSection ==
  /\ NextOffered
  /\ CanAdvance
  /\ currentSection' = currentSection + 1
  /\ UNCHANGED <<studySections, studyPc, studyLoading, studyError, studyCompleted,
                 previousPresses>>
  /\ UNCHANGED outsideStudy

(***************************************************************************)
(* The Previous button (disabled on page 0) is pressed.                    *)
(***************************************************************************)
handlePreviousSection ==
  /\ StudyShown
  /\ currentSection > 0
  /\ previousPresses < MaxPrevious
  /\ currentSection' = currentSection - 1
  /\ previousPresses' = previousPresses + 1
  /\ UNCHANGED <<studySections, studyPc, studyLoading, studyError, studyCompleted>>
  /\ UNCHANGED outsideStudy

(***************************************************************************)
(* A student reading the study content: the requests are answered, and     *)
(* Next is pressed again and again, with a few presses of Previous.        *)
(* handleStudyComplete is bound to the Complete Study button only.         *)
(***************************************************************************)
NextStudy ==
  \/ studyAssessmentResponse
  \/ studyContentResponse
  \/ handleNextSection
  \/ handlePreviousSection

StudyFairSpec ==
  /\ InitStudy
  /\ [][NextStudy]_vars
  /\ WF_vars(studyAssessmentResponse)
  /\ WF_vars(studyContentResponse)
  /\ WF_vars(handleNextSection)

(***************************************************************************)
(* UserTypeProvider (contexts/AuthContext.tsx).                            *)
(***************************************************************************)
\* SELECT_USER_TYPE that leaves the loading flag as it is.
userTypeReducer_KeepLoading(st, action) ==
  CASE action.type = "SELECT_USER_TYPE" -> [st EXCEPT !.userType = action.payload]
    [] action.type = "SET_LOADING" -> [st EXCEPT !.loading = action.payload]
    [] action.type = "CLEAR_SELECTION" -> [st EXCEPT !.userType = "null", !.loading = FALSE]
    [] OTHER -> st

userTypeReducer(st, action) ==
  CASE action.type = "SELECT_USER_TYPE" ->
         [st EXCEPT !.userType = action.payload, !.loading = FALSE]
    [] action.type = "SET_LOADING" -> [st EXCEPT !.loading = action.payload]
    [] action.type = "CLEAR_SELECTION" -> [st EXCEPT !.userType = "null", !.loading = FALSE]
    [] OTHER -> st

\* The mount effect that reads the stored user type, skipped.
StoredUserTypeEffect_Skipped(st) == st

(***************************************************************************)
(* The mount effect: localStorage.getItem('userType'); if there is a       *)
(* stored user type, dispatch SELECT_USER_TYPE with it.                    *)
(***************************************************************************)
StoredUserTypeEffect(st) ==
  IF localStorage # "null"
  THEN userTypeReducer(st, [type |-> "SELECT_USER_TYPE", payload |-> localStorage])
  ELSE st

(***************************************************************************)
(* Init: the first mount of the provider, after the mount effect, with     *)
(* whatever an earlier visit left in localStorage.                         *)
(***************************************************************************)
InitAuth ==
  /\ InitTake
  /\ DashboardIdle
  /\ StudyIdle
  /\ ViewIdle
  /\ SettingsIdle /\ storedSettings = NoSettings
  /\ TeacherIdle
  /\ localStorage \in UserTypes \cup {"null"}
  /\ state = StoredUserTypeEffect(initialState)
  /\ pendingSelect = [t \in UserTypes |-> 0]
  /\ lastDone = [op |-> "none", userType |-> "null"]
  /\ selects = 0
  /\ mounts = 0

(***************************************************************************)
(* selectUserType(userType) up to its await: SET_LOADING true and the      *)
(* select-user-type request is sent.  (A null userType returns at once.)   *)
(***************************************************************************)
selectUserType ==
  /\ selects < MaxSelects
  /\ \E userType \in UserTypes :
       /\ state' = userTypeReducer(state, [type |-> "SET_LOADING", payload |-> TRUE])
       /\ pendingSelect' = [pendingSelect EXCEPT ![userType] = @ + 1]
  /\ selects' = selects + 1
  /\ UNCHANGED <<localStorage, lastDone, mounts>>
  /\ UNCHANGED outsideAuth

(***************************************************************************)
(* selectUserType after its await: the response is OK, is not OK, or the   *)
(* fetch was rejected; each branch dispatches SELECT_USER_TYPE and stores  *)
(* the user type.                                                          *)
(***************************************************************************)
selectResponse ==
  /\ \E userType \in UserTypes, outcome \in Outcomes :
       /\ pendingSelect[userType] > 0
       /\ pendingSelect' = [pendingSelect EXCEPT ![userType] = @ - 1]
       /\ state' = userTypeReducer(state, [type |-> "SELECT_USER_TYPE", payload |-> userType])
       /\ localStorage' = userType
       /\ lastDone' = [op |-> "select", userType |-> userType]
  /\ UNCHANGED <<selects, mounts>>
  /\ UNCHANGED outsideAuth

(***************************************************************************)
(* clearSelection: CLEAR_SELECTION and localStorage.removeItem.            *)
(***************************************************************************)
clearSelection ==
  /\ state' = userTypeReducer(state, [type |-> "CLEAR_SELECTION", payload |-> "null"])
  /\ localStorage' = "null"
  /\ lastDone' = [op |-> "clear", userType |-> "null"]
  /\ UNCHANGED <<pendingSelect, selects, mounts>>
  /\ UNCHANGED outsideAuth

(***************************************************************************)
(* The page is loaded again: requests in flight are gone with the old      *)
(* page, the provider starts from initialState and runs its mount effect.  *)
(***************************************************************************)
mountProvider ==
  /\ mounts < MaxMounts
  /\ mounts' = mounts + 1
  /\ pendingSelect' = [t \in UserTypes |-> 0]
  /\ state' = StoredUserTypeEffect(initialState)
  /\ UNCHANGED <<localStorage, lastDone, selects>>
  /\ UNCHANGED outsideAuth

NextAuth ==
  \/ selectUserType
  \/ selectResponse
  \/ clearSelection
  \/ mountProvider

AuthSpec == InitAuth /\ [][NextAuth]_vars

(***************************************************************************)
(* ViewContent (pages/student/Dashboard.tsx): the teacher's view of one    *)
(* assessment.  A question is its question_text, lower-cased and trimmed   *)
(* as handleRegenerateQuestion compares it: a sequence of words.  The id   *)
(* of a question is its position.                                          *)
(***************************************************************************)
Words == {"a", "b"}

Texts == UNION {[1..n -> Words] : n \in 1..MaxWords}

QuestionLists == [1..NumViewQuestions -> Texts]

WordsOf(text) == {text[i] : i \in DOMAIN text}

\* calculateTextSimilarity(text1, text2) > 0.8, with
\* similarity = (2 * commonWords) / (words1.length + words2.length)
SimilarityAboveThreshold(text1, text2) ==
  LET commonWords == Cardinality(WordsOf(text1) \cap WordsOf(text2))
  IN 10 * (2 * commonWords) > 8 * (Len(text1) + Len(text2))

\* A check that takes only an equal text for a duplicate.
isDuplicate_EqualOnly(questions, questionId, generatedText) ==
  \E q \in DOMAIN questions \ {questionId} : questions[q] = generatedText

\* existingQuestions.some(existing => calculateTextSimilarity(existing, generatedText) > 0.8)
isDuplicate(questions, questionId, generatedText) ==
  \E q \in DOMAIN questions \ {questionId} :
       SimilarityAboveThreshold(questions[q], generatedText)

\* assessment.questions.map(q => q.id === regenerateModal.questionId ? newQuestion : q)
updatedQuestions(questions, questionId, newQuestion) ==
  [q \in DOMAIN questions |-> IF q = questionId THEN newQuestion ELSE questions[q]]

(***************************************************************************)
(* Init: ViewContent mounted with an assessmentId, fetchAssessment started.*)
(***************************************************************************)
InitView ==
  /\ InitTake
  /\ DashboardIdle
  /\ StudyIdle
  /\ AuthIdle
  /\ viewAssessment = NullViewAssessment
  /\ viewPc = "fetch"
  /\ viewLoading = TRUE
  /\ viewError = FALSE
  /\ assignmentSettings = InitialForm
  /\ regenerateModal = NoRegenerateModal
  /\ regenerating = FALSE
  /\ regenPc = "idle"
  /\ regenAttempts = 0
  /\ regenClosure = [assessment |-> NullViewAssessment, questionId |-> 0]
  /\ regenSent = 0
  /\ regenCalls = 0
  /\ regenResult = "none"
  /\ SettingsIdle
  /\ storedSettings = NoSettings
  /\ TeacherIdle

\* The form fetchAssessment fills from data.assignment_settings.
LoadedForm(stored) ==
  [due_date                 |-> IF stored.due_date \in {NoDue, EmptyDue} THEN EmptyDue
                                ELSE stored.due_date,
   time_limit_minutes       |-> stored.time_limit_minutes,
   max_attempts             |-> IF stored.max_attempts = 0 THEN 1 ELSE stored.max_attempts,
   retake_allowed           |-> stored.retake_allowed,
   show_results_immediately |-> TRUE,
   shuffle_questions        |-> stored.shuffle_questions]

(***************************************************************************)
(* fetchAssessment, after its await.  OK: setAssessment(data) and, when    *)
(* data.assignment_settings exists, setAssignmentSettings.  Otherwise      *)
(* setError.  Finally setLoading(false).                                   *)
(***************************************************************************)
fetchAssessmentResponse(lists, stored) ==
  /\ viewPc = "fetch"
  /\ \E outcome \in Outcomes, questions \in lists, data \in stored :
       IF outcome = "ok"
       THEN /\ viewAssessment' = [present |-> TRUE, questions |-> questions,
                                  assignment_settings |-> data]
            /\ assignmentSettings' = IF data.present THEN LoadedForm(data)
                                                     ELSE assignmentSettings
            /\ edits' = IF data.present THEN 0 ELSE edits
            /\ UNCHANGED viewError
       ELSE /\ viewError' = TRUE
            /\ UNCHANGED <<viewAssessment, assignmentSettings, edits>>
  /\ viewPc' = "done"
  /\ viewLoading' = FALSE
  /\ UNCHANGED <<regenerateModal, regenerating, regenPc, regenAttempts, regenClosure,
                 regenSent, regenCalls, regenResult>>
  /\ UNCHANGED <<storedSettings, settingsModal, settingsLoading, assignModal, assigning,
                 savePc, saveClosure, assignPc, inFlight, lastSent, sentByCall,
                 settingsRequests>>
  /\ UNCHANGED outsideView

\* The assessment page is rendered.
ViewShown == ~viewLoading /\ ~viewError /\ viewAssessment.present

(***************************************************************************)
(* The Regenerate button of a question: the modal opens for it.            *)
(***************************************************************************)
openRegenerateModal ==
  /\ UNCHANGED settingsVars
  /\ ViewShown
  /\ ~regenerateModal.show
  /\ regenCalls < MaxRegenerations
  /\ \E q \in DOMAIN viewAssessment.questions :
       regenerateModal' = [show |-> TRUE, questionId |-> q]
  /\ UNCHANGED <<viewAssessment, viewPc, viewLoading, viewError, assignmentSettings,
                 regenerating, regenPc, regenAttempts, regenClosure, regenSent,
                 regenCalls, regenResult>>
  /\ UNCHANGED outsideView

(***************************************************************************)
(* Cancel, or the modal's onClose.                                         *)
(***************************************************************************)
closeRegenerateModal ==
  /\ UNCHANGED settingsVars
  /\ regenerateModal.show
  /\ regenerateModal' = NoRegenerateModal
  /\ UNCHANGED <<viewAssessment, viewPc, viewLoading, viewError, assignmentSettings,
                 regenerating, regenPc, regenAttempts, regenClosure, regenSent,
                 regenCalls, regenResult>>
  /\ UNCHANGED outsideView

(***************************************************************************)
(* handleRegenerateQuestion up to its first await: setRegenerating(true),  *)
(* attempts = 0, the first regenerate request is sent.                     *)
(***************************************************************************)
handleRegenerateQuestion ==
  /\ UNCHANGED settingsVars
  /\ ViewShown
  /\ regenerateModal.show /\ ~regenerating
  /\ regenerateModal.questionId # 0
  /\ regenCalls < MaxRegenerations
  /\ regenCalls' = regenCalls + 1
  /\ regenerating' = TRUE
  /\ regenAttempts' = 0
  /\ regenClosure' = [assessment |-> viewAssessment, questionId |-> regenerateModal.questionId]
  /\ regenSent' = 1
  /\ regenPc' = "await"
  /\ regenResult' = "none"
  /\ UNCHANGED <<viewAssessment, viewPc, viewLoading, viewError, assignmentSettings,
                 regenerateModal>>
  /\ UNCHANGED outsideView

\* The call is over: finally setRegenerating(false).
RegenerateEnds(result) ==
  /\ regenerating' = FALSE
  /\ regenPc' = "idle"
  /\ regenResult' = result

(***************************************************************************)
(* handleRegenerateQuestion after an await of the loop.  OK with a text    *)
(* that is no duplicate: the question is replaced in the captured          *)
(* assessment and the modal is closed.  OK with a duplicate: attempts++    *)
(* and, below maxAttempts, the next request; else the alert.  Not OK:      *)
(* break and the alert.  Rejected: the catch.                              *)
(***************************************************************************)
regenerateResponse ==
  /\ UNCHANGED settingsVars
  /\ regenPc = "await"
  /\ \E outcome \in Outcomes, generatedText \in Texts :
       LET questions  == regenClosure.assessment.questions
           questionId == regenClosure.questionId
       IN CASE outcome = "ok" /\ ~isDuplicate(questions, questionId, generatedText) ->
                 /\ viewAssessment' =
                      [regenClosure.assessment EXCEPT
                         !.questions = updatedQuestions(questions, questionId, generatedText)]
                 /\ regenerateModal' = NoRegenerateModal
                 /\ regenAttempts' = regenAttempts + 1
                 /\ RegenerateEnds("replaced")
                 /\ UNCHANGED regenSent
            [] outcome = "ok" /\ isDuplicate(questions, questionId, generatedText) ->
                 /\ regenAttempts' = regenAttempts + 1
                 /\ IF regenAttempts + 1 < maxAttempts
                    THEN /\ regenSent' = regenSent + 1
                         /\ UNCHANGED <<regenerating, regenPc, regenResult>>
                    ELSE /\ RegenerateEnds("not_obtained")
                         /\ UNCHANGED regenSent
                 /\ UNCHANGED <<viewAssessment, regenerateModal>>
            [] OTHER ->
                 /\ RegenerateEnds("not_obtained")
                 /\ UNCHANGED <<viewAssessment, regenerateModal, regenAttempts, regenSent>>
  /\ UNCHANGED <<viewPc, viewLoading, viewError, assignmentSettings, regenClosure,
                 regenCalls>>
  /\ UNCHANGED outsideView

(***************************************************************************)
(* The teacher regenerating questions of an assessment without settings.   *)
(***************************************************************************)
NextRegenerate ==
  \/ fetchAssessmentResponse(QuestionLists, {NoSettings})
  \/ openRegenerateModal
  \/ closeRegenerateModal
  \/ handleRegenerateQuestion
  \/ regenerateResponse

RegenSpec == InitView /\ [][NextRegenerate]_vars

(***************************************************************************)
(* ViewContent: the assignment settings.  The settings the backend holds   *)
(* for the assessment are the input; max_attempts is one the form offers.  *)
(***************************************************************************)
StoredSettings ==
  [present : {TRUE},
   due_date : {NoDue} \cup 0..MaxDate,
   time_limit_minutes : 0..MaxLimitMinutes,
   max_attempts : {UnlimitedAttempts} \cup 1..MaxAttemptsSetting,
   retake_allowed : BOOLEAN,
   show_results_immediately : BOOLEAN,
   shuffle_questions : BOOLEAN]

\* The one question list of the assessment whose settings are edited.
SettingsFixture == {[q \in 1..NumViewQuestions |-> <<"a">>]}

InitSettings ==
  /\ InitTake
  /\ DashboardIdle
  /\ StudyIdle
  /\ AuthIdle
  /\ viewAssessment = NullViewAssessment
  /\ viewPc = "fetch"
  /\ viewLoading = TRUE
  /\ viewError = FALSE
  /\ assignmentSettings = InitialForm
  /\ regenerateModal = NoRegenerateModal
  /\ regenerating = FALSE
  /\ regenPc = "idle"
  /\ regenAttempts = 0
  /\ regenClosure = [assessment |-> NullViewAssessment, questionId |-> 0]
  /\ regenSent = 0
  /\ regenCalls = 0
  /\ regenResult = "none"
  /\ SettingsIdle
  /\ storedSettings \in StoredSettings
  /\ TeacherIdle

\* The settings a request body carries, as the backend stores them.
ToStored(body) ==
  [present                  |-> TRUE,
   due_date                 |-> body.due_date,
   time_limit_minutes       |-> body.time_limit_minutes,
   max_attempts             |-> body.max_attempts,
   retake_allowed           |-> body.retake_allowed,
   show_results_immediately |-> body.show_results_immediately,
   shuffle_questions        |-> body.shuffle_questions]

\* handleSaveSettings: {...assignmentSettings, due_date: assignmentSettings.due_date || undefined}
SaveBody(form) ==
  [form EXCEPT !.due_date = IF form.due_date = EmptyDue THEN NoDue ELSE form.due_date]

\* handleAssignAssessment: assignmentData, the six fields of the form as they are
AssignBody(form) == form

regenVars == <<regenerateModal, regenerating, regenPc, regenAttempts, regenClosure,
               regenSent, regenCalls, regenResult>>

NoModalOpen == ~settingsModal /\ ~assignModal /\ ~regenerateModal.show

(***************************************************************************)
(* The Assignment Settings button, and Cancel / onClose of its modal.      *)
(***************************************************************************)
openSettingsModal ==
  /\ ViewShown /\ NoModalOpen
  /\ settingsRequests < MaxSettingsRequests
  /\ settingsModal' = TRUE
  /\ UNCHANGED <<storedSettings, settingsLoading, assignModal, assigning, savePc,
                 saveClosure, assignPc, inFlight, lastSent, sentByCall,
                 settingsRequests, edits>>
  /\ UNCHANGED <<viewAssessment, viewPc, viewLoading, viewError, assignmentSettings>>
  /\ UNCHANGED regenVars
  /\ UNCHANGED outsideView

closeSettingsModal ==
  /\ ViewShown /\ settingsModal
  /\ settingsModal' = FALSE
  /\ UNCHANGED <<storedSettings, settingsLoading, assignModal, assigning, savePc,
                 saveClosure, assignPc, inFlight, lastSent, sentByCall,
                 settingsRequests, edits>>
  /\ UNCHANGED <<viewAssessment, viewPc, viewLoading, viewError, assignmentSettings>>
  /\ UNCHANGED regenVars
  /\ UNCHANGED outsideView

(***************************************************************************)
(* A checkbox of the settings form is changed.                             *)
(***************************************************************************)
changeCheckbox ==
  /\ ViewShown /\ settingsModal
  /\ edits < MaxEdits
  /\ edits' = edits + 1
  /\ \E field \in {"retake_allowed", "show_results_immediately", "shuffle_questions"} :
       assignmentSettings' = [assignmentSettings EXCEPT ![field] = ~@]
  /\ UNCHANGED <<storedSettings, settingsModal, settingsLoading, assignModal, assigning,
                 savePc, saveClosure, assignPc, inFlight, lastSent, sentByCall,
                 settingsRequests>>
  /\ UNCHANGED <<viewAssessment, viewPc, viewLoading, viewError>>
  /\ UNCHANGED regenVars
  /\ UNCHANGED outsideView

(***************************************************************************)
(* handleSaveSettings up to its await: setSettingsLoading(true) and the    *)
(* request with the form as its body.                                      *)
(***************************************************************************)
handleSaveSettings ==
  /\ ViewShown /\ settingsModal /\ ~settingsLoading
  /\ settingsRequests < MaxSettingsRequests
  /\ settingsRequests' = settingsRequests + 1
  /\ settingsLoading' = TRUE
  /\ savePc' = "await"
  /\ saveClosure' = [assessment |-> viewAssessment, assignmentSettings |-> assignmentSettings]
  /\ inFlight' = [inFlight EXCEPT !["handleSaveSettings"] = SaveBody(assignmentSettings)]
  /\ lastSent' = [handler |-> "handleSaveSettings", body |-> SaveBody(assignmentSettings)]
  /\ sentByCall' = [sentByCall EXCEPT !["handleSaveSettings"] = 1]
  /\ UNCHANGED <<storedSettings, settingsModal, assignModal, assigning, assignPc, edits>>
  /\ UNCHANGED <<viewAssessment, viewPc, viewLoading, viewError, assignmentSettings>>
  /\ UNCHANGED regenVars
  /\ UNCHANGED outsideView

(***************************************************************************)
(* handleSaveSettings after its await.  OK: the backend holds the body;    *)
(* setAssessment with the captured form as assignment_settings and the     *)
(* modal closes.  Otherwise a log entry.  Finally setSettingsLoading(false)*)
(***************************************************************************)
saveSettingsResponse ==
  /\ savePc = "await"
  /\ \E outcome \in Outcomes :
       IF outcome = "ok"
       THEN /\ storedSettings' = ToStored(inFlight["handleSaveSettings"])
            /\ viewAssessment' =
                 [saveClosure.assessment EXCEPT
                    !.assignment_settings = ToStored(saveClosure.assignmentSettings)]
            /\ settingsModal' = FALSE
       ELSE UNCHANGED <<storedSettings, viewAssessment, settingsModal>>
  /\ settingsLoading' = FALSE
  /\ savePc' = "idle"
  /\ UNCHANGED <<assignModal, assigning, saveClosure, assignPc, inFlight, lastSent,
                 sentByCall, settingsRequests, edits>>
  /\ UNCHANGED <<viewPc, viewLoading, viewError, assignmentSettings>>
  /\ UNCHANGED regenVars
  /\ UNCHANGED outsideView

(***************************************************************************)
(* The Assign button, and Cancel / onClose of its modal.                   *)
(***************************************************************************)
openAssignModal ==
  /\ ViewShown /\ NoModalOpen
  /\ settingsRequests < MaxSettingsRequests
  /\ assignModal' = TRUE
  /\ UNCHANGED <<storedSettings, settingsModal, settingsLoading, assigning, savePc,
                 saveClosure, assignPc, inFlight, lastSent, sentByCall,
                 settingsRequests, edits>>
  /\ UNCHANGED <<viewAssessment, viewPc, viewLoading, viewError, assignmentSettings>>
  /\ UNCHANGED regenVars
  /\ UNCHANGED outsideView

closeAssignModal ==
  /\ ViewShown /\ assignModal
  /\ assignModal' = FALSE
  /\ UNCHANGED <<storedSettings, settingsModal, settingsLoading, assigning, savePc,
                 saveClosure, assignPc, inFlight, lastSent, sentByCall,
                 settingsRequests, edits>>
  /\ UNCHANGED <<viewAssessment, viewPc, viewLoading, viewError, assignmentSettings>>
  /\ UNCHANGED regenVars
  /\ UNCHANGED outsideView

(***************************************************************************)
(* handleAssignAssessment up to its await: setAssigning(true) and the      *)
(* request with the six fields of the form.  The button shows a spinner    *)
(* while assigning and is taken not to start a second call meanwhile.      *)
(***************************************************************************)
handleAssignAssessment ==
  /\ ViewShown /\ assignModal /\ ~assigning
  /\ settingsRequests < MaxSettingsRequests
  /\ settingsRequests' = settingsRequests + 1
  /\ assigning' = TRUE
  /\ assignPc' = "await"
  /\ inFlight' = [inFlight EXCEPT !["handleAssignAssessment"] = AssignBody(assignmentSettings)]
  /\ lastSent' = [handler |-> "handleAssignAssessment", body |-> AssignBody(assignmentSettings)]
  /\ sentByCall' = [sentByCall EXCEPT !["handleAssignAssessment"] = 1]
  /\ UNCHANGED <<storedSettings, settingsModal, settingsLoading, assignModal, savePc,
                 saveClosure, edits>>
  /\ UNCHANGED <<viewAssessment, viewPc, viewLoading, viewError, assignmentSettings>>
  /\ UNCHANGED regenVars
  /\ UNCHANGED outsideView

(***************************************************************************)
(* handleAssignAssessment after its await.  OK: the backend holds the      *)
(* body; the modal closes, an alert, and fetchAssessment() is started.     *)
(* Otherwise an alert.  Finally setAssigning(false).                       *)
(***************************************************************************)
assignResponse ==
  /\ assignPc = "await"
  /\ \E outcome \in Outcomes :
       IF outcome = "ok"
       THEN /\ storedSettings' = ToStored(inFlight["handleAssignAssessment"])
            /\ assignModal' = FALSE
            /\ viewPc' = "fetch"
       ELSE UNCHANGED <<storedSettings, assignModal, viewPc>>
  /\ assigning' = FALSE
  /\ assignPc' = "idle"
  /\ UNCHANGED <<settingsModal, settingsLoading, savePc, saveClosure, inFlight, lastSent,
                 sentByCall, settingsRequests, edits>>
  /\ UNCHANGED <<viewAssessment, viewLoading, viewError, assignmentSettings>>
  /\ UNCHANGED regenVars
  /\ UNCHANGED outsideView

(***************************************************************************)
(* The teacher viewing, changing, saving and assigning the settings.       *)
(***************************************************************************)
NextSettings ==
  \/ fetchAssessmentResponse(SettingsFixture, {storedSettings})
  \/ openSettingsModal
  \/ closeSettingsModal
  \/ changeCheckbox
  \/ handleSaveSettings
  \/ saveSettingsResponse
  \/ openAssignModal
  \/ closeAssignModal
  \/ handleAssignAssessment
  \/ assignResponse

SettingsSpec == InitSettings /\ [][NextSettings]_vars

(***************************************************************************)
(* TeacherDashboard (pages/teacher/Dashboard.tsx).  Init: mounted,         *)
(* loading, the assessments request sent.                                  *)
(***************************************************************************)
TeacherMounted ==
  /\ teacherAssessments = {}
  /\ teacherPc = "assessments"
  /\ teacherLoading = TRUE
  /\ deleteModal = NoDeleteModal
  /\ deleting = FALSE
  /\ deletePc = "idle"
  /\ deleteClosure = 0
  /\ deleteSent = 0
  /\ deleteCalls = 0

(***************************************************************************)
(* fetchData, first await: the assessments arrive.  OK: setAssessments and *)
(* the statistics requests follow; not OK: the class statistics request    *)
(* follows; rejected: the catch, finally setLoading(false).                *)
(***************************************************************************)
teacherAssessmentsResponse ==
  /\ teacherPc = "assessments"
  /\ \E outcome \in Outcomes :
       CASE outcome = "ok" ->
              /\ teacherAssessments' = 1..NumTeacherAssessments
              /\ teacherPc' = "statistics"
              /\ UNCHANGED teacherLoading
         [] outcome = "non_ok" ->
              /\ teacherPc' = "statistics"
              /\ UNCHANGED <<teacherAssessments, teacherLoading>>
         [] OTHER ->
              /\ teacherPc' = "done"
              /\ teacherLoading' = FALSE
              /\ UNCHANGED teacherAssessments
  /\ UNCHANGED <<deleteModal, deleting, deletePc, deleteClosure, deleteSent, deleteCalls>>
  /\ UNCHANGED outsideTeacher

(***************************************************************************)
(* fetchData, the statistics requests are answered: finally                *)
(* setLoading(false).  The statistics themselves are not modelled.         *)
(***************************************************************************)
teacherStatisticsResponse ==
  /\ teacherPc = "statistics"
  /\ teacherPc' = "done"
  /\ teacherLoading' = FALSE
  /\ UNCHANGED <<teacherAssessments, deleteModal, deleting, deletePc, deleteClosure,
                 deleteSent, deleteCalls>>
  /\ UNCHANGED outsideTeacher

TeacherShown == teacherPc = "done" /\ ~teacherLoading

\* The delete button of a listed assessment: setDeleteModal({show: true, assessment})
openDeleteModal ==
  /\ TeacherShown /\ ~deleteModal.show
  /\ deleteCalls < MaxDeletes
  /\ \E a \in teacherAssessments : deleteModal' = [show |-> TRUE, assessment |-> a]
  /\ UNCHANGED <<teacherAssessments, teacherPc, teacherLoading, deleting, deletePc,
                 deleteClosure, deleteSent, deleteCalls>>
  /\ UNCHANGED outsideTeacher

\* The modal's onClose, or Cancel (disabled while deleting)
closeDeleteModal ==
  /\ TeacherShown /\ deleteModal.show
  /\ deleteModal' = NoDeleteModal
  /\ UNCHANGED <<teacherAssessments, teacherPc, teacherLoading, deleting, deletePc,
                 deleteClosure, deleteSent, deleteCalls>>
  /\ UNCHANGED outsideTeacher

(***************************************************************************)
(* handleDeleteAssessment up to its await: setDeleting(true) and the       *)
(* DELETE request.  The button shows a spinner while deleting and is taken *)
(* not to start a second call meanwhile.                                   *)
(***************************************************************************)
handleDeleteAssessment ==
  /\ TeacherShown /\ deleteModal.show /\ deleteModal.assessment # 0
  /\ ~deleting
  /\ deleteCalls < MaxDeletes
  /\ deleteCalls' = deleteCalls + 1
  /\ deleting' = TRUE
  /\ deletePc' = "await"
  /\ deleteClosure' = deleteModal.assessment
  /\ deleteSent' = 1
  /\ UNCHANGED <<teacherAssessments, teacherPc, teacherLoading, deleteModal>>
  /\ UNCHANGED outsideTeacher

(***************************************************************************)
(* handleDeleteAssessment after its await.  OK: the assessment leaves the  *)
(* list and the modal closes.  Otherwise a log entry.  Finally             *)
(* setDeleting(false).                                                     *)
(***************************************************************************)
deleteResponse ==
  /\ deletePc = "await"
  /\ \E outcome \in Outcomes :
       IF outcome = "ok"
       THEN /\ teacherAssessments' = teacherAssessments \ {deleteClosure}
            /\ deleteModal' = NoDeleteModal
       ELSE UNCHANGED <<teacherAssessments, deleteModal>>
  /\ deleting' = FALSE
  /\ deletePc' = "idle"
  /\ UNCHANGED <<teacherPc, teacherLoading, deleteClosure, deleteSent, deleteCalls>>
  /\ UNCHANGED outsideTeacher

(***************************************************************************)
(* The pages that send requests on the user's behalf, one page per         *)
(* session: a student taking an assessment, a teacher viewing one, a       *)
(* teacher on the dashboard.                                               *)
(***************************************************************************)
\* TakeAssessment is not on screen.
TakeIdle ==
  /\ assessment = NullAssessment
  /\ attempt = NullAttempt
  /\ currentQuestionIndex = 0
  /\ answers = <<>>
  /\ loading = FALSE
  /\ fetchPc = "done"
  /\ clock = 0
  /\ questionStartTime = 0
  /\ showResults = FALSE
  /\ submitting = FALSE
  /\ timeRemaining = NoLimit
  /\ mounted = FALSE
  /\ pendingNext = [i \in 0..NumQuestions - 1 |-> 0]
  /\ procs = [p \in 1..NumQuestions + 1 |-> 0]
  /\ timerSubmitting = FALSE
  /\ answersInitAt = 0
  /\ calls = <<>>
  /\ submissions = 0
  /\ completeSent = 0
  /\ completeOk = 0
  /\ manualClicks = 0
  /\ autoInvoked = FALSE
  /\ responsesSent = 0
  /\ responseFailed = FALSE

\* ViewContent mounted, fetchAssessment started.
ViewMounted ==
  /\ viewAssessment = NullViewAssessment
  /\ viewPc = "fetch"
  /\ viewLoading = TRUE
  /\ viewError = FALSE
  /\ assignmentSettings = InitialForm
  /\ regenerateModal = NoRegenerateModal
  /\ regenerating = FALSE
  /\ regenPc = "idle"
  /\ regenAttempts = 0
  /\ regenClosure = [assessment |-> NullViewAssessment, questionId |-> 0]
  /\ regenSent = 0
  /\ regenCalls = 0
  /\ regenResult = "none"
  /\ SettingsIdle

\* The settings of the viewed assessment: none yet, or the form's defaults.
SettingsSamples == {NoSettings, ToStored(SaveBody(InitialForm))}

InitRequests ==
  /\ DashboardIdle /\ StudyIdle /\ AuthIdle
  /\ \/ InitTake /\ ViewIdle /\ SettingsIdle /\ storedSettings = NoSettings /\ TeacherIdle
     \/ TakeIdle /\ ViewMounted /\ storedSettings \in SettingsSamples /\ TeacherIdle
     \/ TakeIdle /\ ViewIdle /\ SettingsIdle /\ storedSettings = NoSettings /\ TeacherMounted

NextRequests ==
  \/ getAssessmentResponse({"absent"}, {FALSE})
  \/ startAttemptResponse(0..MaxLimitMinutes)
  \/ timerTick
  \/ handleNext
  \/ nextResponse
  \/ clickSubmit
  \/ responseArrives
  \/ completeArrives
  \/ fetchAssessmentResponse(SettingsFixture, {storedSettings})
  \/ openSettingsModal
  \/ closeSettingsModal
  \/ handleSaveSettings
  \/ saveSettingsResponse
  \/ openAssignModal
  \/ closeAssignModal
  \/ handleAssignAssessment
  \/ assignResponse
  \/ openRegenerateModal
  \/ closeRegenerateModal
  \/ handleRegenerateQuestion
  \/ regenerateResponse
  \/ teacherAssessmentsResponse
  \/ teacherStatisticsResponse
  \/ openDeleteModal
  \/ closeDeleteModal
  \/ handleDeleteAssessment
  \/ deleteResponse

RequestSpec == InitRequests /\ [][NextRequests]_vars


(***************************************************************************)
(* C1.  For an attempt whose start response carries time_limit_minutes =   *)
(* L > 0 the countdown starts at 60*L seconds; if the student has not      *)
(* submitted manually, the tick that takes the remaining time from 1 to 0  *)
(* invokes handleSubmitAssessment, which passes its guard; and, with the   *)
(* page left open and no manual submission, a complete-attempt request is  *)
(* eventually sent.                                                        *)
(***************************************************************************)
C1_CountdownAutoSubmits ==
  /\ [][(fetchPc = "startAttempt" /\ attempt'.present /\ attempt'.time_limit_minutes > 0)
          => timeRemaining' = 60 * attempt'.time_limit_minutes]_vars
  /\ [][(timeRemaining = 1 /\ timeRemaining' = 0 /\ manualClicks = 0)
          => (autoInvoked' /\ submissions' = submissions + 1)]_vars
  /\ [][(timeRemaining > 1) => timeRemaining' \in {timeRemaining, timeRemaining - 1}]_vars
  /\ [](  (attempt.present /\ attempt.time_limit_minutes > 0)
          => <>(completeSent > 0 \/ manualClicks > 0 \/ ~mounted))

\* The countdown ran out with no manual submission and the complete-attempt
\* request went out
C1_Witness ==
  /\ attempt.present /\ attempt.time_limit_minutes > 0
  /\ timeRemaining = 0 /\ autoInvoked /\ manualClicks = 0
  /\ completeSent > 0 /\ mounted

(***************************************************************************)
(* C10.  showResults is true only after a complete-attempt request         *)
(* returned OK with show_results_immediately true; an OK response with     *)
(* the setting false or absent navigates to /student and leaves            *)
(* showResults false.                                                      *)
(***************************************************************************)
C10_ResultsOnlyAfterOk ==
  /\ [](showResults => (completeOk > 0 /\ assessment.show_results_immediately = "true"))
  /\ [][(completeOk' = completeOk + 1 /\ assessment.show_results_immediately # "true")
          => (~mounted' /\ ~showResults')]_vars

\* The completion screen is shown
C10_Witness == showResults /\ completeOk > 0 /\ mounted


(***************************************************************************)
(* C3.  The sum over all questions of answers[q].timeSpent is at most the  *)
(* time elapsed since the answers were initialised, and every timeSpent    *)
(* is >= 0.                                                                *)
(***************************************************************************)
TimeSpentOf == [q \in DOMAIN answers |-> answers[q].timeSpent]

C3_TimeSpentWithinSession ==
  ~loading /\ attempt.present =>
     /\ Sum(TimeSpentOf) <= clock - answersInitAt
     /\ \A q \in DOMAIN answers : answers[q].timeSpent >= 0

(***************************************************************************)
(* C4.  For every question q, changeCount starts at 0, never decreases,    *)
(* and equals the number of handleAnswerChange calls made while q was the  *)
(* current question; a call on q changes the record of no other question.  *)
(***************************************************************************)
C4_ChangeCountCountsCalls ==
  /\ [][(DOMAIN answers = {} /\ DOMAIN answers' # {})
          => \A q \in DOMAIN answers' : answers'[q].changeCount = 0]_vars
  /\ [][\A q \in DOMAIN answers : answers'[q].changeCount >= answers[q].changeCount]_vars
  /\ [](\A q \in DOMAIN answers : answers[q].changeCount = calls[q])
  /\ [][handleAnswerChange
          => \A r \in DOMAIN answers \ {CurrentQuestion} : answers'[r] = answers[r]]_vars

\* Both questions had their answer changed, one of them twice
C4_Witness ==
  /\ DOMAIN answers # {}
  /\ \E q, r \in DOMAIN answers :
       q # r /\ answers[q].changeCount >= 2 /\ answers[r].changeCount >= 1

(***************************************************************************)
(* C5.  handleMarkConfused flips isConfused of the current question only,  *)
(* leaves its answer, timeSpent and changeCount and every other question's *)
(* record unchanged, and applied twice in a row restores the answers map.  *)
(***************************************************************************)
C5_MarkConfusedFlipsCurrent ==
  /\ [][handleMarkConfused =>
          LET q == CurrentQuestion IN
            /\ answers'[q].isConfused = ~answers[q].isConfused
            /\ answers'[q].answer = answers[q].answer
            /\ answers'[q].timeSpent = answers[q].timeSpent
            /\ answers'[q].changeCount = answers[q].changeCount
            /\ \A r \in DOMAIN answers \ {q} : answers'[r] = answers[r]]_vars
  /\ [](TakingPageShown =>
          ConfusedToggled(ConfusedToggled(answers, CurrentQuestion), CurrentQuestion) = answers)

\* A question whose answer was changed is flagged, another one is not
C5_Witness ==
  /\ DOMAIN answers # {}
  /\ \E q, r \in DOMAIN answers :
       /\ q # r
       /\ answers[q].isConfused /\ answers[q].changeCount > 0
       /\ ~answers[r].isConfused

(***************************************************************************)
(* C6.  Whenever answers[q].changeCount reaches CONFUSION_THRESHOLD,       *)
(* answers[q].isConfused is true.                                          *)
(***************************************************************************)
C6_ConfusedAtThreshold ==
  \A q \in DOMAIN answers :
     answers[q].changeCount >= CONFUSION_THRESHOLD => answers[q].isConfused

C7_PastDueIsExpired ==
  (DashboardShown /\ settings.present /\ DueDateBeforeNow)
  => getAssessmentStatus = "expired"

(***************************************************************************)
(* C8: on the rendered dashboard, when max_attempts is -1 and the due date *)
(* has not passed, canTakeAssessment is true for any number of attempts,   *)
(* also with the fallback performance record.                              *)
(***************************************************************************)
C8_UnlimitedNeverBlocked ==
  (/\ DashboardShown
   /\ settings.present /\ settings.max_attempts = UnlimitedAttempts
   /\ ~DueDateBeforeNow)
  => canTakeAssessment

(***************************************************************************)
(* C9: on the rendered dashboard, for settings with a max_attempts value,  *)
(* getRemainingAttempts returns 'Unlimited' when the backend reports       *)
(* remaining_attempts = -1 or, on the legacy path, when max_attempts = -1; *)
(* otherwise it returns max(0, max_attempts - total attempts).             *)
(***************************************************************************)
C9_RemainingAttempts ==
  (DashboardShown /\ settings.present /\ settings.max_attempts # 0)
  => IF \/ performanceFetch = "ok" /\ performanceData.remaining_attempts = -1
        \/ ~performanceData.present /\ settings.max_attempts = UnlimitedAttempts
     THEN getRemainingAttempts = Unlimited
     ELSE getRemainingAttempts =
            Remaining(Max(0, settings.max_attempts - TotalAttemptsShown))

(***************************************************************************)
(* C11: in StudyContent with n sections, pressing Next repeatedly from     *)
(* page 0 eventually reaches the summary page currentSection = n + 1,      *)
(* where the Complete Study button is offered.                             *)
(***************************************************************************)
C11_NextReachesSummary ==
  [](StudyShown => <>(currentSection = studySections + 1 /\ CompleteStudyOffered))

(***************************************************************************)
(* C12: a selectUserType(t) call, t student or teacher, ends with          *)
(* state.userType = t, state.loading = false and localStorage 'userType'   *)
(* = t, whether the request returned OK, returned non-OK or threw.         *)
(***************************************************************************)
C12_SelectionNeverBlocked ==
  [][\A t \in UserTypes :
       (/\ pendingSelect[t] > 0
        /\ pendingSelect' = [pendingSelect EXCEPT ![t] = @ - 1]
        /\ mounts' = mounts)
       => (state'.userType = t /\ ~state'.loading /\ localStorage' = t)]_vars

\* A call for teacher has ended while one for student is still in flight.
C12_Witness ==
  /\ lastDone = [op |-> "select", userType |-> "teacher"]
  /\ state = [userType |-> "teacher", loading |-> FALSE]
  /\ localStorage = "teacher"
  /\ pendingSelect["student"] > 0

(***************************************************************************)
(* C13: when the provider is mounted again after selectUserType(t)         *)
(* completed last, state.userType becomes t; after clearSelection ran last *)
(* with no selection request pending, the stored value is removed and a    *)
(* fresh mount leaves userType = null.                                     *)
(***************************************************************************)
C13_SelectionPersists ==
  /\ [][(mounts' = mounts + 1 /\ lastDone.op = "select")
          => state'.userType = lastDone.userType]_vars
  /\ [][(mounts' = mounts + 1 /\ lastDone.op = "clear")
          => (localStorage = "null" /\ state'.userType = "null")]_vars
  /\ []((lastDone.op = "clear" /\ \A t \in UserTypes : pendingSelect[t] = 0)
          => localStorage = "null")

\* Mounted again with the teacher selection of the page before, and nothing
\* selected since.
C13_Witness ==
  /\ mounts > 0
  /\ lastDone = [op |-> "select", userType |-> "teacher"]
  /\ state.userType = "teacher"
  /\ selects = 1
  /\ \A t \in UserTypes : pendingSelect[t] = 0

(***************************************************************************)
(* C14: a step of handleRegenerateQuestion that changes the question list  *)
(* replaces the targeted question by a text whose similarity to each other *)
(* question is at most 0.8 and leaves every other question unchanged and   *)
(* in place; a call that ends without such a question leaves the list      *)
(* unchanged and the regenerate modal as it was (open).                    *)
(***************************************************************************)
C14_RegenerateReplacesByUnique ==
  /\ [][(regenPc = "await" /\ viewAssessment'.questions # viewAssessment.questions)
          => LET old == viewAssessment.questions
                 new == viewAssessment'.questions
                 target == regenClosure.questionId
             IN /\ DOMAIN new = DOMAIN old
                /\ \A q \in DOMAIN old \ {target} : new[q] = old[q]
                /\ \A q \in DOMAIN old \ {target} :
                      ~SimilarityAboveThreshold(old[q], new[target])]_vars
  /\ [][(regenPc = "await" /\ regenPc' = "idle" /\ regenResult' = "not_obtained")
          => (viewAssessment' = viewAssessment /\ regenerateModal' = regenerateModal)]_vars
  /\ [][(regenPc = "await" /\ regenPc' = "idle" /\ regenResult' = "replaced")
          => \A q \in DOMAIN viewAssessment'.questions \ {regenClosure.questionId} :
               ~SimilarityAboveThreshold(viewAssessment'.questions[q],
                                         viewAssessment'.questions[regenClosure.questionId])]_vars

\* After three duplicates in a row the call has ended, the modal still open.
C14_WitnessNotObtained ==
  /\ regenPc = "idle" /\ regenResult = "not_obtained"
  /\ regenAttempts = maxAttempts
  /\ regenerateModal.show
  /\ viewAssessment.questions = regenClosure.assessment.questions

\* A question has been replaced by a text that differs from it.
C14_Witness ==
  /\ regenPc = "idle" /\ regenResult = "replaced"
  /\ ~regenerateModal.show
  /\ viewAssessment.questions # regenClosure.assessment.questions

\* '' and undefined both stand for "no due date".
SameDue(a, b) ==
  (IF a = EmptyDue THEN NoDue ELSE a) = (IF b = EmptyDue THEN NoDue ELSE b)

SameSettings(a, b) ==
  /\ SameDue(a.due_date, b.due_date)
  /\ a.time_limit_minutes = b.time_limit_minutes
  /\ a.max_attempts = b.max_attempts
  /\ a.retake_allowed = b.retake_allowed
  /\ a.show_results_immediately = b.show_results_immediately
  /\ a.shuffle_questions = b.shuffle_questions

(***************************************************************************)
(* C15: after fetchAssessment has loaded an assessment with assignment     *)
(* settings, every field of the form equals the stored field (a stored     *)
(* show_results_immediately = false stays false); and a save or assign     *)
(* request sent with no change made in the form carries the stored         *)
(* settings.                                                               *)
(***************************************************************************)
C15_SettingsLoadPreserves ==
  /\ [][(viewPc = "fetch" /\ viewPc' = "done" /\ ~viewError'
         /\ viewAssessment'.assignment_settings.present)
          => SameSettings(assignmentSettings', viewAssessment'.assignment_settings)]_vars
  /\ [][(settingsRequests' = settingsRequests + 1 /\ edits = 0
         /\ viewAssessment.assignment_settings.present)
          => SameSettings(lastSent'.body, storedSettings)]_vars

(***************************************************************************)
(* C17: a submit-response request that fails during handleSubmitAssessment *)
(* does not abort the loop: the submission goes on to its next request,    *)
(* the complete-attempt request of every submission is still sent, and an  *)
(* OK answer to it reports the attempt as completed (the results are       *)
(* shown, or the page returns to the dashboard) whatever failed before.    *)
(***************************************************************************)
C17_FailedResponseChangesNothing ==
  /\ [][(~responseFailed /\ responseFailed')
          => /\ Sum(procs') = Sum(procs)
             /\ responsesSent' + completeSent' = responsesSent + completeSent + 1]_vars
  /\ [](responseFailed => <>(completeSent = submissions))
  /\ [][(responseFailed /\ completeOk' = completeOk + 1)
          => (showResults' \/ ~mounted')]_vars

\* A submit-response request of the one submission failed, the
\* complete-attempt request was answered OK and the results are shown.
C17_Witness ==
  /\ submissions = 1 /\ responseFailed
  /\ completeOk = 1
  /\ showResults /\ mounted

(***************************************************************************)
(* C16: no request is sent again after it failed.  A submission sends one  *)
(* submit-response request per answer and one complete-attempt request;    *)
(* a call of handleSaveSettings, handleAssignAssessment or                 *)
(* handleDeleteAssessment sends one request; handleRegenerateQuestion      *)
(* sends a further request only after an OK response (a duplicate), at     *)
(* most maxAttempts in all, and a non-OK or rejected one ends the call.    *)
(***************************************************************************)
C16_NoRetry ==
  /\ [](/\ responsesSent <= submissions * AnswerCount
        /\ completeSent <= submissions
        /\ \A h \in Handlers : sentByCall[h] <= 1
        /\ deleteSent <= 1
        /\ regenSent <= maxAttempts)
  /\ [][(regenPc = "await" /\ regenSent' = regenSent + 1)
          => regenAttempts' = regenAttempts + 1]_vars
  /\ [][(regenPc = "await" /\ regenAttempts' = regenAttempts /\ regenPc' # regenPc)
          => (regenPc' = "idle" /\ regenSent' = regenSent
              /\ regenResult' = "not_obtained")]_vars
  /\ [][(savePc = "await" /\ savePc' = "idle") => sentByCall' = sentByCall]_vars
  /\ [][(assignPc = "await" /\ assignPc' = "idle") => sentByCall' = sentByCall]_vars
  /\ [][(deletePc = "await" /\ deletePc' = "idle") => deleteSent' = deleteSent]_vars

\* A submission has sent all its requests, one of them failed.
C16_Witness ==
  /\ submissions = 1 /\ responseFailed
  /\ responsesSent = AnswerCount /\ completeSent = 1

=============================================================================
